---------------------------- MODULE Spec2Model ----------------------------
(***************************************************************************)
(* Model of the memory scanning engine of src/thing/MemoryEditor.py        *)
(* (class MemoryEditor): attach/detach, raw reads and writes, scan,        *)
(* filter, modify, read and freeze, against a target process whose         *)
(* virtual address space is a small layout of regions.                     *)
(*                                                                         *)
(* Scale.  The address space is scaled down: addresses are small naturals, *)
(* the chunk cap (10 MiB in the source) is ChunkCap addresses and the      *)
(* user-mode ceiling (0x7FFFFFFF0000 in the source) is MaxUserAddress.     *)
(* Value widths (4, 8, 4, 8, 1 bytes) and byte encodings are the real      *)
(* ones.                                                                   *)
(*                                                                         *)
(* Python integers.  TLC's integers are 32 bits wide, so a Python int n is *)
(* a record [top, mid, lo] of base-2^24 limbs (see PyInt), which           *)
(* represents every int64 value and the values next to the int64 range.    *)
(***************************************************************************)
EXTENDS Integers, Sequences, FiniteSets, TLC

VARIABLES
    process_handle,   \* self.process_handle: "None", "NULL" (0) or a live handle
    pid,              \* self.pid
    process_name,     \* self.process_name
    found_addresses,  \* self.found_addresses: sequence of addresses
    found_in,         \* the pid the session held when the candidates were found, 0 if none
    value_type,       \* self.value_type
    mem,              \* target process memory: address -> byte, on committed addresses
    faulty,           \* regions of the target whose reads currently fail
    freeze,           \* the freeze_value call in progress, or Idle
    call,             \* the last step: operation, number of candidates it removed
    raised,           \* the exception the last engine call raised, or "none"
    result,           \* what the last engine call returned
    reads,            \* the ReadProcessMemory calls the last engine call issued
    open_handles,     \* handles OpenProcess returned that CloseHandle has not closed
    printed           \* the last message of the command loop, "" before the first

vars == <<process_handle, pid, process_name, found_addresses, found_in, value_type,
          mem, faulty, freeze, call, raised, result, reads, open_handles,
          printed>>

-----------------------------------------------------------------------------
(* Windows API constants, lines 20-26.                                     *)
MEM_COMMIT == 4096
PAGE_READONLY == 2
PAGE_READWRITE == 4
PAGE_WRITECOPY == 8
PAGE_EXECUTE_READ == 32
PAGE_EXECUTE_READWRITE == 64

(* Values VirtualQueryEx reports for regions the scan must skip.            *)
MEM_RESERVE == 2 * MEM_COMMIT
MEM_FREE == 16 * MEM_COMMIT
PAGE_NOACCESS == PAGE_READONLY \div 2

(* The chunk cap of scan_memory (10 * 1024 * 1024 in the source), scaled.   *)
ChunkCap == 12

(* The user-mode ceiling of scan_memory (0x7FFFFFFF0000), scaled.           *)
MaxUserAddress == 39

-----------------------------------------------------------------------------
(* Python integers as [top, mid, lo] with n = (top * 2^24 + mid) * 2^24 + lo *)
(* and 0 <= mid, lo < 2^24.                                                 *)
Limb == 256 * 256 * 256

PyInt(n) ==
    [top |-> (n \div Limb) \div Limb, mid |-> (n \div Limb) % Limb, lo |-> n % Limb]

(* 2^31 and -2^31 - 1, the values next to the int32 range; 2^63, the        *)
(* value next above the int64 range.                                        *)
TwoTo31 == [top |-> 0, mid |-> 128, lo |-> 0]
BelowInt32 == [top |-> -1, mid |-> Limb - 129, lo |-> Limb - 1]
TwoTo63 == [top |-> 32768, mid |-> 0, lo |-> 0]

(* The ends of the int32 and int64 ranges.                                  *)
MaxInt32 == [top |-> 0, mid |-> 127, lo |-> Limb - 1]
MinInt32 == [top |-> -1, mid |-> Limb - 128, lo |-> 0]
MaxInt64 == [top |-> 32767, mid |-> Limb - 1, lo |-> Limb - 1]
MinInt64 == [top |-> -32768, mid |-> 0, lo |-> 0]

Pow256(j) == CASE j = 0 -> 1 [] j = 1 -> 256 [] j = 2 -> 65536 [] j = 3 -> 16777216

RECURSIVE Pow2(_)
Pow2(e) == IF e = 0 THEN 1 ELSE 2 * Pow2(e - 1)

(* Byte j (0 or 1) of the 16-bit two's complement form of t.                *)
TwosByte(t, j) == ((t + 65536) \div Pow256(j)) % 256

(* Byte j (0 = least significant) of the two's complement form of v.        *)
IntByte(v, j) ==
    IF j <= 2 THEN (v.lo \div Pow256(j)) % 256
    ELSE IF j <= 5 THEN (v.mid \div Pow256(j - 3)) % 256
    ELSE TwosByte(v.top, j - 6)

(* struct.pack('<i', v) raises struct.error outside [-2^31, 2^31 - 1],      *)
(* struct.pack('<q', v) outside [-2^63, 2^63 - 1].                          *)
InInt32(v) == (v.top = 0 /\ v.mid <= 127) \/ (v.top = -1 /\ v.mid >= Limb - 128)
InInt64(v) == v.top >= -32768 /\ v.top <= 32767

(* The plain integer of a Python int of small magnitude (|n| < 2^21), the  *)
(* range in which the float encodings below are exact.                      *)
IsSmall(v) ==
    \/ v.top = 0 /\ v.mid = 0 /\ v.lo < 2097152
    \/ v.top = -1 /\ v.mid = Limb - 1 /\ v.lo > Limb - 2097152
Plain(v) == IF v.top = 0 THEN v.lo ELSE v.lo - Limb
Abs(n) == IF n < 0 THEN -n ELSE n

RECURSIVE Log2(_)
Log2(n) == IF n <= 1 THEN 0 ELSE 1 + Log2(n \div 2)

(* IEEE 754 binary32 of the integer n as a 32-bit pattern without the sign  *)
(* bit: exponent e + 127 above 23 fraction bits.                            *)
Float32Bits(n) ==
    IF n = 0 THEN 0
    ELSE LET e == Log2(n) IN (e + 127) * Pow2(23) + (n - Pow2(e)) * Pow2(23 - e)

(* IEEE 754 binary64 of the integer n < 2^21: the upper 32 bits without the *)
(* sign bit; the lower 32 bits are zero.                                    *)
Float64HighBits(n) ==
    IF n = 0 THEN 0
    ELSE LET e == Log2(n) IN (e + 1023) * Pow2(20) + (n - Pow2(e)) * Pow2(20 - e)

SignByte(n) == IF n < 0 THEN 128 ELSE 0

(* The value kinds scan_memory, filter_addresses, modify_value and          *)
(* read_value dispatch on.                                                  *)
SupportedKinds == {"int32", "int64", "float", "double", "byte"}

(* Width in bytes of a kind: the `size` of each branch.                     *)
Width(k) ==
    CASE k = "int32" -> 4 [] k = "int64" -> 8 [] k = "float" -> 4
      [] k = "double" -> 8 [] k = "byte" -> 1

(* The exception the conversion of v to bytes raises for kind k, or "none". *)
(* scan_memory and modify_value end in `else: raise ValueError`.            *)
PackError(v, k) ==
    CASE k = "int32" -> IF InInt32(v) THEN "none" ELSE "struct.error"
      [] k = "int64" -> IF InInt64(v) THEN "none" ELSE "struct.error"
      [] k \in {"float", "double", "byte"} -> "none"
      [] OTHER -> "ValueError"

(* search_bytes: struct.pack('<i' | '<q' | '<f' | '<d', v) or              *)
(* bytes([v & 0xFF]), as a sequence of bytes, least significant first.      *)
Pack(v, k) ==
    CASE k = "int32" -> [j \in 1..4 |-> IntByte(v, j - 1)]
      [] k = "int64" -> [j \in 1..8 |-> IntByte(v, j - 1)]
      [] k = "float" ->
            LET b == Float32Bits(Abs(Plain(v)))
            IN  [j \in 1..4 |-> IF j = 4 THEN (b \div Pow256(3)) + SignByte(Plain(v))
                                ELSE (b \div Pow256(j - 1)) % 256]
      [] k = "double" ->
            LET b == Float64HighBits(Abs(Plain(v)))
            IN  [j \in 1..8 |-> IF j <= 4 THEN 0
                                ELSE IF j = 8 THEN (b \div Pow256(3)) + SignByte(Plain(v))
                                ELSE (b \div Pow256(j - 5)) % 256]
      [] k = "byte" -> <<v.lo % 256>>

(* decode with the byte format 'b' (signed) for 'B'.                        *)
Unpack_SignedByte(raw, k) ==
    CASE k = "int32" ->
            [top |-> IF raw[4] >= 128 THEN -1 ELSE 0,
             mid |-> IF raw[4] >= 128 THEN Limb - 256 + raw[4] ELSE raw[4],
             lo  |-> raw[1] + 256 * raw[2] + 65536 * raw[3]]
      [] k = "int64" ->
            [top |-> raw[7] + 256 * raw[8] - (IF raw[8] >= 128 THEN 65536 ELSE 0),
             mid |-> raw[4] + 256 * raw[5] + 65536 * raw[6],
             lo  |-> raw[1] + 256 * raw[2] + 65536 * raw[3]]
      [] k = "byte" -> PyInt(IF raw[1] >= 128 THEN raw[1] - 256 ELSE raw[1])
      [] k \in {"float", "double"} -> [ieee |-> raw]

(* decode: struct.unpack(fmt, data)[0].  A float is identified by its      *)
(* IEEE pattern (bit-exact), so a float result is the pattern itself.       *)
Unpack(raw, k) ==
    CASE k = "int32" ->
            [top |-> IF raw[4] >= 128 THEN -1 ELSE 0,
             mid |-> IF raw[4] >= 128 THEN Limb - 256 + raw[4] ELSE raw[4],
             lo  |-> raw[1] + 256 * raw[2] + 65536 * raw[3]]
      [] k = "int64" ->
            [top |-> raw[7] + 256 * raw[8] - (IF raw[8] >= 128 THEN 65536 ELSE 0),
             mid |-> raw[4] + 256 * raw[5] + 65536 * raw[6],
             lo  |-> raw[1] + 256 * raw[2] + 65536 * raw[3]]
      [] k = "byte" -> [top |-> 0, mid |-> 0, lo |-> raw[1]]
      [] k \in {"float", "double"} -> [ieee |-> raw]

-----------------------------------------------------------------------------
(* The target process.  Regions is what VirtualQueryEx reports, ascending   *)
(* and contiguous from address 0:                                           *)
(*   1  free                         0 ..  1                                *)
(*   2  committed, read-write        2 .. 13                                *)
(*   3  committed, no access        14 .. 17                                *)
(*   4  committed, read-only        18 .. 34   (larger than ChunkCap)       *)
(*   5  reserved                    35 .. 38                                *)
Regions ==
    << [BaseAddress |-> 0,  RegionSize |-> 2,  State |-> MEM_FREE,    Protect |-> PAGE_NOACCESS],
       [BaseAddress |-> 2,  RegionSize |-> 12, State |-> MEM_COMMIT,  Protect |-> PAGE_READWRITE],
       [BaseAddress |-> 14, RegionSize |-> 4,  State |-> MEM_COMMIT,  Protect |-> PAGE_NOACCESS],
       [BaseAddress |-> 18, RegionSize |-> 17, State |-> MEM_COMMIT,  Protect |-> PAGE_READONLY],
       [BaseAddress |-> 35, RegionSize |-> 4,  State |-> MEM_RESERVE, Protect |-> PAGE_NOACCESS] >>

RegionEnd(r) == r.BaseAddress + r.RegionSize

Committed == {a \in 0..(MaxUserAddress - 1) :
                \E i \in DOMAIN Regions :
                    /\ Regions[i].State = MEM_COMMIT
                    /\ a >= Regions[i].BaseAddress /\ a < RegionEnd(Regions[i])}

(* The index of the region holding address a, 0 when there is none.         *)
RegionIndex ==
    [a \in 0..MaxUserAddress |->
        IF \E i \in DOMAIN Regions : a >= Regions[i].BaseAddress /\ a < RegionEnd(Regions[i])
        THEN CHOOSE i \in DOMAIN Regions :
                a >= Regions[i].BaseAddress /\ a < RegionEnd(Regions[i])
        ELSE 0]
RegionOf(a) == IF a \in DOMAIN RegionIndex THEN RegionIndex[a] ELSE 0

(* The int32 variables of the target program and the two it keeps writing.  *)
TargetVariables == {2, 6, 10, 14, 18, 30}
MutableVariables == {2, 6}
InitialValue == PyInt(100)

(* Memory in which each target variable holds InitialValue, zero elsewhere. *)
InitialMemory ==
    [a \in Committed |->
        IF \E t \in TargetVariables : a >= t /\ a < t + 4
        THEN LET t == CHOOSE t \in TargetVariables : a >= t /\ a < t + 4
             IN  Pack(InitialValue, "int32")[a - t + 1]
        ELSE 0]

(* The processes of the machine: the target and a process that cannot be   *)
(* opened; any other pid names no process.                                  *)
Pids == {1000, 2000}
OpenProcess(p) == CASE p = 1000 -> "H1000" [] p = 4000 -> "H4000" [] OTHER -> "NULL"
ProcessName(p) ==
    CASE p = 1000 -> "game.exe" [] p = 2000 -> "System" [] p = 4000 -> "notepad.exe"
      [] OTHER -> "Unknown"

(* The handle is to the target, the process whose address space Regions and *)
(* mem describe.  The other process that can be opened, pid 4000, has       *)
(* nothing mapped at the addresses of the model.                            *)
OnTarget(h) == h # "H4000"

(* Python truthiness of self.process_handle; a truthy handle is live.       *)
HandleLive(h) == h \notin {"None", "NULL"}

(* Pages ReadProcessMemory can read and WriteProcessMemory can write.       *)
ReadablePages ==
    {a \in Committed :
        Regions[RegionOf(a)].Protect \in {PAGE_READONLY, PAGE_READWRITE, PAGE_WRITECOPY,
                                          PAGE_EXECUTE_READ, PAGE_EXECUTE_READWRITE}}
WritablePages ==
    {a \in Committed :
        Regions[RegionOf(a)].Protect \in {PAGE_READWRITE, PAGE_WRITECOPY,
                                          PAGE_EXECUTE_READWRITE}}
CanRead(a) == OnTarget(process_handle) /\ a \in ReadablePages /\ RegionOf(a) \notin faulty
CanWrite(a) == OnTarget(process_handle) /\ a \in WritablePages /\ RegionOf(a) \notin faulty

(* kernel32.VirtualQueryEx(handle, address): failure (result 0) past the    *)
(* last region or on a dead handle; otherwise the pages from `address` to   *)
(* the end of the region holding it, with the region's state and            *)
(* protection (a page is one address of the scaled space).                  *)
VirtualQueryEx(h, address) ==
    IF ~OnTarget(h)
    THEN [result |-> 1,
          BaseAddress |-> address,
          RegionSize |-> MaxUserAddress - address,
          State |-> MEM_FREE,
          Protect |-> PAGE_NOACCESS]
    ELSE IF HandleLive(h) /\ RegionOf(address) # 0
    THEN [result |-> 1,
          BaseAddress |-> address,
          RegionSize |-> RegionEnd(Regions[RegionOf(address)]) - address,
          State |-> Regions[RegionOf(address)].State,
          Protect |-> Regions[RegionOf(address)].Protect]
    ELSE [result |-> 0]

-----------------------------------------------------------------------------
(* read_memory, lines 72-87: the bytes, or None when the call fails or is   *)
(* short.                                                                   *)
None == [ok |-> FALSE, raw |-> <<>>]

(* Line 85 without its test: the buffer is returned whatever was read, the  *)
(* bytes that were not read left at zero.                                   *)
read_memory_Unchecked(address, size) ==
    [ok |-> TRUE,
     raw |-> [j \in 1..size |->
                IF HandleLive(process_handle) /\ CanRead(address + j - 1)
                THEN mem[address + j - 1] ELSE 0]]

read_memory(address, size) ==
    IF HandleLive(process_handle) /\ \A a \in address..(address + size - 1) : CanRead(a)
    THEN [ok |-> TRUE, raw |-> [j \in 1..size |-> mem[address + j - 1]]]
    ELSE None

(* Python truthiness of what read_memory returns: `if data`.                *)
Truthy(data) == data.ok /\ Len(data.raw) > 0

(* write_memory, lines 89-102: whether the write succeeds, and the memory   *)
(* after it.                                                                *)
write_ok(address, data) ==
    HandleLive(process_handle) /\ \A a \in address..(address + Len(data) - 1) : CanWrite(a)

write_mem(address, data) ==
    IF write_ok(address, data)
    THEN [a \in DOMAIN mem |->
            IF a >= address /\ a < address + Len(data) THEN data[a - address + 1] ELSE mem[a]]
    ELSE mem

-----------------------------------------------------------------------------
(* Lines 153-156 without the protection test.                               *)
IsReadable_AnyProtection(mbi) == mbi.State = MEM_COMMIT

(* scan_memory, lines 152-156: the regions the scan reads.                  *)
IsReadable(mbi) ==
    /\ mbi.State = MEM_COMMIT
    /\ mbi.Protect \in {PAGE_READONLY, PAGE_READWRITE, PAGE_WRITECOPY,
                        PAGE_EXECUTE_READ, PAGE_EXECUTE_READWRITE}

(* Line 159: region_size = min(mbi.RegionSize, 10 MiB).                     *)
ChunkSize(mbi) == IF mbi.RegionSize < ChunkCap THEN mbi.RegionSize ELSE ChunkCap

(* Line 165: the loop `while offset < len(data) - size` visits the offsets  *)
(* 0 .. len(data) - size - 1.                                               *)
SearchOffsets(len, size) == 0..(len - size - 1)

(* Line 166: data[offset:offset+size] == search_bytes.                      *)
MatchAt(data, offset, search_bytes) ==
    /\ offset + Len(search_bytes) <= Len(data)
    /\ \A j \in 1..Len(search_bytes) : data[offset + j] = search_bytes[j]

(* Lines 164-169 walking the chunk from its end to its start.               *)
RECURSIVE SearchFrom_Descending(_, _, _, _)
SearchFrom_Descending(data, offset, search_bytes, base) ==
    IF offset \notin SearchOffsets(Len(data), Len(search_bytes)) THEN <<>>
    ELSE SearchFrom_Descending(data, offset + 1, search_bytes, base)
         \o (IF MatchAt(data, offset, search_bytes) THEN <<base + offset>> ELSE <<>>)

(* Lines 164-169: the addresses the search of one chunk appends, in the     *)
(* order of the loop.                                                       *)
RECURSIVE SearchFrom(_, _, _, _)
SearchFrom(data, offset, search_bytes, base) ==
    IF offset \notin SearchOffsets(Len(data), Len(search_bytes)) THEN <<>>
    ELSE (IF MatchAt(data, offset, search_bytes) THEN <<base + offset>> ELSE <<>>)
         \o SearchFrom(data, offset + 1, search_bytes, base)

(* Line 175 advancing by the chunk read instead of the region.              *)
NextAddress_ChunkEnd(mbi) == mbi.BaseAddress + ChunkSize(mbi)

(* Line 175 without the region's size: the address does not move.           *)
NextAddress_Stalls(mbi) == mbi.BaseAddress

(* Line 175: address = mbi.BaseAddress + mbi.RegionSize.                    *)
NextAddress(mbi) == mbi.BaseAddress + mbi.RegionSize

(* Lines 140-175 leaving the loop when the read of a region fails.          *)
RECURSIVE Walk_Aborting(_, _, _, _)
Walk_Aborting(address, found, rd, search_bytes) ==
    IF ~(address < MaxUserAddress) THEN [found |-> found, reads |-> rd]
    ELSE LET mbi == VirtualQueryEx(process_handle, address) IN
         IF mbi.result = 0 THEN [found |-> found, reads |-> rd]
         ELSE IF IsReadable(mbi)
         THEN LET data == read_memory(mbi.BaseAddress, ChunkSize(mbi))
              IN  IF Truthy(data)
                  THEN Walk_Aborting(NextAddress(mbi),
                           found \o SearchFrom(data.raw, 0, search_bytes, mbi.BaseAddress),
                           rd \cup {<<mbi.BaseAddress, ChunkSize(mbi)>>},
                           search_bytes)
                  ELSE [found |-> found, reads |-> rd \cup {<<mbi.BaseAddress, ChunkSize(mbi)>>}]
         ELSE Walk_Aborting(NextAddress(mbi), found, rd, search_bytes)

(* Lines 140-175: the walk from `address` with `found` collected so far and *)
(* `rd` the reads issued so far.                                            *)
RECURSIVE Walk(_, _, _, _)
Walk(address, found, rd, search_bytes) ==
    IF ~(address < MaxUserAddress) THEN [found |-> found, reads |-> rd]
    ELSE LET mbi == VirtualQueryEx(process_handle, address) IN
         IF mbi.result = 0 THEN [found |-> found, reads |-> rd]
         ELSE IF IsReadable(mbi)
         THEN LET data == read_memory(mbi.BaseAddress, ChunkSize(mbi))
              IN  Walk(NextAddress(mbi),
                       IF Truthy(data)
                       THEN found \o SearchFrom(data.raw, 0, search_bytes, mbi.BaseAddress)
                       ELSE found,
                       rd \cup {<<mbi.BaseAddress, ChunkSize(mbi)>>},
                       search_bytes)
         ELSE Walk(NextAddress(mbi), found, rd, search_bytes)

-----------------------------------------------------------------------------
(* Inputs.  A scan takes a (value, kind) pair; "int16" stands for a kind    *)
(* that matches no branch.  "NoArg" is an omitted value_type argument.      *)
ScanInputs ==
    {<<PyInt(100), "int32">>, <<PyInt(200), "int32">>, <<PyInt(0), "int32">>,
     <<TwoTo31, "int32">>, <<PyInt(100), "int64">>, <<PyInt(100), "byte">>,
     <<PyInt(100), "float">>, <<PyInt(100), "double">>, <<PyInt(100), "int16">>}
FilterValues == {PyInt(100), PyInt(200), TwoTo31}
EngineScanInputs == {<<PyInt(100), "int32">>, <<PyInt(100), "int16">>}
EngineFilterValues == {PyInt(200)}
FilterKinds == {"NoArg", "int64", "int16"}
ModifyValues == {PyInt(200), TwoTo31}
FreezeValues == {PyInt(200)}
RawAddresses == {6, 12, 35}
TargetValues == {PyInt(100), PyInt(200)}

(* How many of the leading candidates a caller may pick by index, and the   *)
(* longest freeze duration in seconds.                                      *)
MaxIndex == 1
MaxDuration == 1

(* The most handles to the target the editor's process holds at a time.    *)
MaxHandles == 2

(* Loop iterations of freeze_value per second (sleep(0.1): 10), scaled.     *)
TicksPerSecond == 2

(* The float encodings are modelled on integers of small magnitude.         *)
Encodable(v, k) == k \in {"float", "double"} => IsSmall(v)

(* The addresses a caller passes: a raw address or a leading candidate.     *)
Addresses ==
    RawAddresses \cup {found_addresses[i] : i \in 1..(IF Len(found_addresses) < MaxIndex
                                                      THEN Len(found_addresses) ELSE MaxIndex)}

Idle == [active |-> FALSE]
NoResult == [type |-> "none"]
Raised == [type |-> "raised"]

(* The last step: its operation and how many candidates it removed.        *)
Call(op, dropped) == [op |-> op, dropped |-> dropped]

(* scan_memory is inside its loop at line 140, about to test `address`;    *)
(* search_bytes is the local of that name.                                  *)
InLoop(address, search_bytes) ==
    [op |-> "scanning", dropped |-> 0, address |-> address, search_bytes |-> search_bytes]
Scanning == call.op = "scanning"

(* A modify_value step, with the address, the value and the kind it wrote.  *)
Modified(address, value, kind) ==
    [op |-> "modify_value", dropped |-> 0, address |-> address, value |-> value,
     kind |-> kind]

(* `value_type = self.value_type if value_type is None`.                    *)
EffectiveKind(kind) == IF kind = "NoArg" THEN value_type ELSE kind

Init ==
    /\ process_handle = "None"
    /\ pid = 0
    /\ process_name = "None"
    /\ found_addresses = <<>>
    /\ found_in = 0
    /\ value_type = "int32"
    /\ mem = InitialMemory
    /\ faulty = {}
    /\ freeze = Idle
    /\ call = Call("init", 0)
    /\ raised = "none"
    /\ result = NoResult
    /\ reads = {}
    /\ open_handles = 0
    /\ printed = ""

-----------------------------------------------------------------------------
(* open_process, lines 62-63: one exception for every pid that OpenProcess  *)
(* does not open.                                                           *)
OpenError(p) == IF HandleLive(OpenProcess(p)) THEN "none" ELSE "Exception"

(* open_process, lines 50-64.                                               *)
open_process(p) ==
    /\ freeze = Idle
    /\ HandleLive(OpenProcess(p)) => open_handles < MaxHandles
    /\ open_handles' = IF HandleLive(OpenProcess(p)) THEN open_handles + 1 ELSE open_handles
    /\ pid' = p
    /\ process_name' = ProcessName(p)
    /\ process_handle' = OpenProcess(p)
    /\ raised' = OpenError(p)
    /\ result' = IF HandleLive(OpenProcess(p)) THEN [type |-> "bool", val |-> TRUE] ELSE Raised
    /\ call' = Call("open_process", 0)
    /\ reads' = {}
    /\ UNCHANGED <<found_addresses, found_in, value_type, mem, faulty, freeze>>

(* close_process also emptying the candidate list.                          *)
close_process_Clearing ==
    /\ freeze = Idle
    /\ open_handles' = IF HandleLive(process_handle) THEN open_handles - 1 ELSE open_handles
    /\ process_handle' = IF HandleLive(process_handle) THEN "None" ELSE process_handle
    /\ found_addresses' = <<>>
    /\ found_in' = 0
    /\ raised' = "none"
    /\ result' = NoResult
    /\ call' = Call("close_process", 0)
    /\ reads' = {}
    /\ UNCHANGED <<pid, process_name, value_type, mem, faulty, freeze>>

(* close_process without line 70: the closed handle stays in the session.   *)
close_process_KeepsHandle ==
    /\ freeze = Idle
    /\ open_handles' = IF HandleLive(process_handle) THEN open_handles - 1 ELSE open_handles
    /\ raised' = "none"
    /\ result' = NoResult
    /\ call' = Call("close_process", 0)
    /\ reads' = {}
    /\ UNCHANGED <<process_handle, pid, process_name, found_addresses, found_in, value_type, mem,
                   faulty, freeze>>

(* close_process, lines 66-70.                                              *)
close_process ==
    /\ freeze = Idle
    /\ open_handles' = IF HandleLive(process_handle) THEN open_handles - 1 ELSE open_handles
    /\ process_handle' = IF HandleLive(process_handle) THEN "None" ELSE process_handle
    /\ raised' = "none"
    /\ result' = NoResult
    /\ call' = Call("close_process", 0)
    /\ reads' = {}
    /\ UNCHANGED <<pid, process_name, found_addresses, found_in, value_type, mem, faulty, freeze>>

(* scan_memory, lines 104-178.                                              *)
scan_memory(value, kind) ==
    /\ freeze = Idle
    /\ Encodable(value, kind)
    /\ value_type' = kind
    /\ call' = Call("scan_memory", 0)
    /\ raised' = PackError(value, kind)
    /\ IF PackError(value, kind) # "none"
       THEN /\ found_addresses' = <<>>
            /\ result' = Raised
            /\ reads' = {}
       ELSE LET w == Walk(0, <<>>, {}, Pack(value, kind))
            IN  /\ found_addresses' = w.found
                /\ result' = [type |-> "list", val |-> w.found]
                /\ reads' = w.reads
    /\ found_in' = IF found_addresses' = <<>> THEN 0 ELSE pid
    /\ UNCHANGED <<open_handles, process_handle, pid, process_name, mem, faulty, freeze>>

(* Line 209 with the comparison inverted (`!=` for `==`).                   *)
FilterKeeps_Inverted(data, search_bytes) == Truthy(data) /\ data.raw # search_bytes

(* Line 209 without the `data and` guard taken as a failure: a candidate    *)
(* whose read failed is kept.                                               *)
FilterKeeps_KeepsUnread(data, search_bytes) == ~Truthy(data) \/ data.raw = search_bytes

(* filter_addresses, line 209: `if data and data == search_bytes`.          *)
FilterKeeps(data, search_bytes) == Truthy(data) /\ data.raw = search_bytes

(* The exception filter_addresses raises on a non-empty candidate list:     *)
(* struct.error from the conversion; with a kind that matches no branch,    *)
(* `size` is unbound at line 208.                                           *)
FilterError(value, k) ==
    IF k \notin SupportedKinds THEN "UnboundLocalError" ELSE PackError(value, k)

(* Lines 206-210 with `filtered.insert(0, address)` for `append`.           *)
RECURSIVE Filtered_Prepending(_, _, _)
Filtered_Prepending(addresses, size, search_bytes) ==
    IF addresses = <<>> THEN <<>>
    ELSE Filtered_Prepending(Tail(addresses), size, search_bytes)
         \o (IF FilterKeeps(read_memory(Head(addresses), size), search_bytes)
             THEN <<Head(addresses)>> ELSE <<>>)

(* Lines 206-210 with the loop over `self.found_addresses[1:]`.             *)
Filtered_SkipsFirst(addresses, size, search_bytes) ==
    LET keep(a) == FilterKeeps(read_memory(a, size), search_bytes)
    IN  SelectSeq(Tail(addresses), keep)

(* filter_addresses, lines 206-210: the candidates the loop keeps, in the   *)
(* order of the loop.                                                       *)
Filtered(addresses, size, search_bytes) ==
    LET keep(a) == FilterKeeps(read_memory(a, size), search_bytes)
    IN  SelectSeq(addresses, keep)

(* filter_addresses, lines 180-214.                                         *)
filter_addresses(value, kind) ==
    /\ freeze = Idle
    /\ Encodable(value, EffectiveKind(kind))
    /\ IF found_addresses = <<>>
       THEN /\ raised' = "none"
            /\ call' = Call("filter_addresses", 0)
            /\ result' = [type |-> "list", val |-> <<>>]
            /\ reads' = {}
            /\ UNCHANGED found_addresses
       ELSE LET k == EffectiveKind(kind) IN
            IF FilterError(value, k) # "none"
            THEN /\ raised' = FilterError(value, k)
                 /\ call' = Call("filter_addresses", 0)
                 /\ result' = Raised
                 /\ reads' = {}
                 /\ UNCHANGED found_addresses
            ELSE LET filtered == Filtered(found_addresses, Width(k), Pack(value, k))
                 IN  /\ found_addresses' = filtered
                     /\ call' = Call("filter_addresses", Len(found_addresses) - Len(filtered))
                     /\ raised' = "none"
                     /\ result' = [type |-> "list", val |-> filtered]
                     /\ reads' = {<<found_addresses[i], Width(k)>> : i \in DOMAIN found_addresses}
    /\ found_in' = IF found_addresses' = <<>> THEN 0 ELSE found_in
    /\ UNCHANGED <<open_handles, process_handle, pid, process_name, value_type, mem, faulty, freeze>>

(* modify_value, lines 216-234.                                             *)
modify_value(address, value, kind) ==
    /\ freeze = Idle
    /\ Encodable(value, EffectiveKind(kind))
    /\ call' = Modified(address, value, EffectiveKind(kind))
    /\ LET k == EffectiveKind(kind) IN
       IF PackError(value, k) # "none"
       THEN /\ raised' = PackError(value, k)
            /\ result' = Raised
            /\ UNCHANGED mem
       ELSE /\ raised' = "none"
            /\ result' = [type |-> "bool", val |-> write_ok(address, Pack(value, k))]
            /\ mem' = write_mem(address, Pack(value, k))
    /\ reads' = {}
    /\ UNCHANGED <<open_handles, process_handle, pid, process_name, found_addresses, found_in, value_type,
                   faulty, freeze>>

(* read_value, lines 236-260; a kind that matches no branch leaves `size`   *)
(* unbound at line 257.                                                     *)
read_value(address, kind) ==
    /\ freeze = Idle
    /\ call' = Call("read_value", 0)
    /\ LET k == EffectiveKind(kind) IN
       IF k \notin SupportedKinds
       THEN /\ raised' = "UnboundLocalError"
            /\ result' = Raised
            /\ reads' = {}
       ELSE LET data == read_memory(address, Width(k)) IN
            /\ raised' = "none"
            /\ result' = IF Truthy(data) THEN [type |-> "value", val |-> Unpack(data.raw, k)]
                         ELSE [type |-> "None"]
            /\ reads' = {<<address, Width(k)>>}
    /\ UNCHANGED <<open_handles, process_handle, pid, process_name, found_addresses, found_in, value_type,
                   mem, faulty, freeze>>

-----------------------------------------------------------------------------
(* freeze_value that takes the first candidate whenever there is one, in    *)
(* place of the address it was passed.                                      *)
freeze_start_FirstCandidate(address, value, kind, duration) ==
    /\ freeze = Idle
    /\ Encodable(value, EffectiveKind(kind))
    /\ freeze' = [active |-> TRUE,
                  address |-> IF found_addresses # <<>> THEN found_addresses[1] ELSE address,
                  value |-> value,
                  kind |-> EffectiveKind(kind), deadline |-> duration * TicksPerSecond,
                  elapsed |-> 0]
    /\ call' = Call("freeze_value", 0)
    /\ raised' = "none"
    /\ result' = NoResult
    /\ reads' = {}
    /\ UNCHANGED <<open_handles, process_handle, pid, process_name, found_addresses, found_in, value_type,
                   mem, faulty>>

(* freeze_value, lines 262-280.  The call blocks its caller: from its start *)
(* to its end no other engine call runs.  Time is counted in loop ticks.    *)
freeze_start(address, value, kind, duration) ==
    /\ freeze = Idle
    /\ Encodable(value, EffectiveKind(kind))
    /\ freeze' = [active |-> TRUE, address |-> address, value |-> value,
                  kind |-> EffectiveKind(kind), deadline |-> duration * TicksPerSecond,
                  elapsed |-> 0]
    /\ call' = Call("freeze_value", 0)
    /\ raised' = "none"
    /\ result' = NoResult
    /\ reads' = {}
    /\ UNCHANGED <<open_handles, process_handle, pid, process_name, found_addresses, found_in, value_type,
                   mem, faulty>>

(* The loop with `start_time = time.time()` inside it: no iteration brings  *)
(* the end of the duration nearer.                                          *)
freeze_tick_NoProgress ==
    /\ freeze.active
    /\ freeze.elapsed < freeze.deadline
    /\ IF PackError(freeze.value, freeze.kind) # "none"
       THEN /\ raised' = PackError(freeze.value, freeze.kind)
            /\ result' = Raised
            /\ freeze' = Idle
            /\ UNCHANGED mem
       ELSE /\ mem' = write_mem(freeze.address, Pack(freeze.value, freeze.kind))
            /\ UNCHANGED <<raised, result, freeze>>
    /\ UNCHANGED <<open_handles, process_handle, pid, process_name, found_addresses, found_in, value_type,
                   faulty, call, reads>>

(* The loop with modify_value called in its first iteration only.           *)
freeze_tick_WritesOnce ==
    /\ freeze.active
    /\ freeze.elapsed < freeze.deadline
    /\ IF PackError(freeze.value, freeze.kind) # "none"
       THEN /\ raised' = PackError(freeze.value, freeze.kind)
            /\ result' = Raised
            /\ freeze' = Idle
            /\ UNCHANGED mem
       ELSE /\ mem' = IF freeze.elapsed = 0
                      THEN write_mem(freeze.address, Pack(freeze.value, freeze.kind))
                      ELSE mem
            /\ freeze' = [freeze EXCEPT !.elapsed = @ + 1]
            /\ UNCHANGED <<raised, result>>
    /\ UNCHANGED <<open_handles, process_handle, pid, process_name, found_addresses, found_in, value_type,
                   faulty, call, reads>>

(* The loop leaving at the first write that modify_value reports as failed. *)
freeze_tick_AbortsOnFailure ==
    /\ freeze.active
    /\ freeze.elapsed < freeze.deadline
    /\ IF PackError(freeze.value, freeze.kind) # "none"
       THEN /\ raised' = PackError(freeze.value, freeze.kind)
            /\ result' = Raised
            /\ freeze' = Idle
            /\ UNCHANGED mem
       ELSE IF ~write_ok(freeze.address, Pack(freeze.value, freeze.kind))
       THEN /\ result' = [type |-> "bool", val |-> FALSE]
            /\ freeze' = Idle
            /\ UNCHANGED <<mem, raised>>
       ELSE /\ mem' = write_mem(freeze.address, Pack(freeze.value, freeze.kind))
            /\ freeze' = [freeze EXCEPT !.elapsed = @ + 1]
            /\ UNCHANGED <<raised, result>>
    /\ UNCHANGED <<open_handles, process_handle, pid, process_name, found_addresses, found_in, value_type,
                   faulty, call, reads>>

(* Lines 275-277: one iteration, modify_value then sleep(0.1); an exception *)
(* of modify_value leaves freeze_value (only KeyboardInterrupt is caught).  *)
freeze_tick ==
    /\ freeze.active
    /\ freeze.elapsed < freeze.deadline
    /\ IF PackError(freeze.value, freeze.kind) # "none"
       THEN /\ raised' = PackError(freeze.value, freeze.kind)
            /\ result' = Raised
            /\ freeze' = Idle
            /\ UNCHANGED mem
       ELSE /\ mem' = write_mem(freeze.address, Pack(freeze.value, freeze.kind))
            /\ freeze' = [freeze EXCEPT !.elapsed = @ + 1]
            /\ UNCHANGED <<raised, result>>
    /\ UNCHANGED <<open_handles, process_handle, pid, process_name, found_addresses, found_in, value_type,
                   faulty, call, reads>>

(* Line 278: the duration has elapsed, "Freeze completed!".                 *)
freeze_complete ==
    /\ freeze.active
    /\ ~(freeze.elapsed < freeze.deadline)
    /\ freeze' = Idle
    /\ result' = [type |-> "outcome", val |-> "Completed"]
    /\ UNCHANGED <<open_handles, process_handle, pid, process_name, found_addresses, found_in, value_type,
                   mem, faulty, call, raised, reads>>

(* Lines 279-280: KeyboardInterrupt, "Freeze stopped by user".              *)
freeze_interrupt ==
    /\ freeze.active
    /\ freeze' = Idle
    /\ result' = [type |-> "outcome", val |-> "Cancelled"]
    /\ UNCHANGED <<open_handles, process_handle, pid, process_name, found_addresses, found_in, value_type,
                   mem, faulty, call, raised, reads>>

-----------------------------------------------------------------------------
(* The environment: the target program stores a value in one of its        *)
(* variables; a region of the target starts or stops failing its reads.     *)
Environment == Call("environment", 0)

target_write(t, v) ==
    /\ mem' = [a \in DOMAIN mem |->
                 IF a >= t /\ a < t + 4 THEN Pack(v, "int32")[a - t + 1] ELSE mem[a]]
    /\ mem' # mem
    /\ IF freeze.active \/ Scanning THEN UNCHANGED <<call, raised, result, reads>>
       ELSE call' = Environment /\ raised' = "none" /\ result' = NoResult /\ reads' = {}
    /\ UNCHANGED <<open_handles, process_handle, pid, process_name, found_addresses, found_in, value_type,
                   faulty, freeze>>

region_fault(i) ==
    /\ IsReadable(Regions[i])
    /\ faulty' = IF i \in faulty THEN faulty \ {i} ELSE faulty \cup {i}
    /\ IF freeze.active \/ Scanning THEN UNCHANGED <<call, raised, result, reads>>
       ELSE call' = Environment /\ raised' = "none" /\ result' = NoResult /\ reads' = {}
    /\ UNCHANGED <<open_handles, process_handle, pid, process_name, found_addresses, found_in, value_type,
                   mem, freeze>>

-----------------------------------------------------------------------------
(* A call made on the engine directly: the command loop prints nothing.     *)
Direct(step) == step /\ UNCHANGED printed

(* The whole engine, each call over a few inputs.                           *)
Next ==
    \/ \E p \in Pids : Direct(open_process(p))
    \/ Direct(close_process)
    \/ \E in \in EngineScanInputs : Direct(scan_memory(in[1], in[2]))
    \/ \E v \in EngineFilterValues, k \in FilterKinds : Direct(filter_addresses(v, k))
    \/ \E a \in Addresses, v \in ModifyValues : Direct(modify_value(a, v, "NoArg"))
    \/ \E a \in Addresses : Direct(read_value(a, "NoArg"))
    \/ \E a \in Addresses, v \in FreezeValues, d \in 0..MaxDuration :
            Direct(freeze_start(a, v, "NoArg", d))
    \/ Direct(freeze_tick)
    \/ Direct(freeze_complete)
    \/ Direct(freeze_interrupt)
    \/ \E t \in MutableVariables, v \in TargetValues : Direct(target_write(t, v))
    \/ \E i \in DOMAIN Regions : Direct(region_fault(i))

Spec == Init /\ [][Next]_vars

(* The scanning core alone: attach, detach, scan and filter against a live  *)
(* target, over the full set of scan and filter inputs.                     *)
NextScan ==
    \/ \E p \in Pids : Direct(open_process(p))
    \/ Direct(close_process)
    \/ \E in \in ScanInputs : Direct(scan_memory(in[1], in[2]))
    \/ \E v \in FilterValues, k \in FilterKinds : Direct(filter_addresses(v, k))
    \/ \E t \in MutableVariables, v \in TargetValues : Direct(target_write(t, v))
    \/ \E i \in DOMAIN Regions : Direct(region_fault(i))

SpecScan == Init /\ [][NextScan]_vars

-----------------------------------------------------------------------------
(* memory_editor_interface, lines 383-636: the command loop.  What the user *)
(* types is a string, a sequence of one-character strings.                  *)
DecimalDigits == <<"0", "1", "2", "3", "4", "5", "6", "7", "8", "9">>
HexDigits == DecimalDigits \o <<"a", "b", "c", "d", "e", "f">>

(* The value of a digit character: its place in HexDigits, from 0.          *)
DigitValue(c) == CHOOSE i \in 0..(Len(HexDigits) - 1) : HexDigits[i + 1] = c

IsDecimalDigit(c) == \E i \in DOMAIN DecimalDigits : DecimalDigits[i] = c
IsHexDigit(c) == \E i \in DOMAIN HexDigits : HexDigits[i] = c

(* str.isdigit(): non-empty and decimal digits only.                        *)
isdigit(text) == text # <<>> /\ \A i \in DOMAIN text : IsDecimalDigit(text[i])

(* The number a digit string denotes in the given base.                     *)
RECURSIVE Numeral(_, _)
Numeral(text, base) ==
    IF text = <<>> THEN 0
    ELSE Numeral(SubSeq(text, 1, Len(text) - 1), base) * base + DigitValue(text[Len(text)])

(* int(text): the decimal value of a digit string.                          *)
int(text) == Numeral(text, Len(DecimalDigits))

(* int(text, 16) takes hex digits after an optional "0x".                   *)
HexBody(text) ==
    IF Len(text) >= 2 /\ SubSeq(text, 1, 2) = <<"0", "x">>
    THEN SubSeq(text, 3, Len(text)) ELSE text
IsHex(text) == HexBody(text) # <<>> /\ \A i \in DOMAIN HexBody(text) : IsHexDigit(HexBody(text)[i])
int16(text) == Numeral(HexBody(text), Len(HexDigits))

(* Lines 542-550, 577-585 and 604-612: what an address input resolves to.   *)
(* A digit string is an index only while there are candidates; anything     *)
(* else, and a digit string without candidates, is parsed as a hex address; *)
(* int(addr_input, 16) raises ValueError on other text.                     *)
ResolveAddress(addr_input) ==
    IF isdigit(addr_input) /\ found_addresses # <<>>
    THEN IF 0 <= int(addr_input) /\ int(addr_input) < Len(found_addresses)
         THEN [how |-> "index", address |-> found_addresses[int(addr_input) + 1]]
         ELSE [how |-> "Invalid index!"]
    ELSE IF IsHex(addr_input)
         THEN [how |-> "hex", address |-> int16(addr_input)]
         ELSE [how |-> "ValueError"]

(* `break` at line 634 has not been reached.                                *)
Running == printed # "Exiting memory editor..."

(* A command the loop turns down before it calls the engine.                *)
Rejected(message) ==
    /\ printed' = message
    /\ call' = Call("rejected", 0)
    /\ raised' = "none"
    /\ result' = NoResult
    /\ reads' = {}
    /\ UNCHANGED <<open_handles, process_handle, pid, process_name, found_addresses, found_in,
                   value_type, mem, faulty, freeze>>

(* An exception the handler's `except Exception` catches before the engine  *)
(* has been called.                                                         *)
Caught(exception) ==
    /\ printed' = "Error"
    /\ call' = Call("rejected", 0)
    /\ raised' = exception
    /\ result' = Raised
    /\ reads' = {}
    /\ UNCHANGED <<open_handles, process_handle, pid, process_name, found_addresses, found_in,
                   value_type, mem, faulty, freeze>>

(* Choice 3, lines 435-442.                                                 *)
cli_attach(p) ==
    /\ Running
    /\ open_process(p)
    /\ printed' = IF raised' = "none" THEN "Successfully attached" ELSE "Error"

(* Choice 0, lines 627-629.                                                 *)
cli_detach ==
    /\ Running
    /\ close_process
    /\ printed' = "Detached from process"

(* Choice q, lines 631-634.                                                 *)
cli_quit ==
    /\ Running
    /\ close_process
    /\ printed' = "Exiting memory editor..."

(* Choice 4 without the test of line 445.                                   *)
cli_scan_Unguarded(value, kind) ==
    /\ Running
    /\ scan_memory(value, kind)
    /\ printed' = IF raised' # "none" THEN "Error"
                  ELSE IF found_addresses' = <<>> THEN "No addresses found!"
                  ELSE "Found addresses:"

(* Choice 4, lines 444-481.  The kind comes from type_map, the value from   *)
(* int(input()); the listing loop re-reads the candidates it prints.        *)
cli_scan(value, kind) ==
    /\ Running
    /\ IF ~HandleLive(process_handle)
       THEN freeze = Idle /\ Rejected("Error: No process attached!")
       ELSE /\ scan_memory(value, kind)
            /\ printed' = IF raised' # "none" THEN "Error"
                          ELSE IF found_addresses' = <<>> THEN "No addresses found!"
                          ELSE "Found addresses:"

(* Choice 5, lines 483-509.                                                 *)
cli_filter(value) ==
    /\ Running
    /\ IF ~HandleLive(process_handle)
       THEN freeze = Idle /\ Rejected("Error: No process attached!")
       ELSE IF found_addresses = <<>>
       THEN freeze = Idle /\ Rejected("Error: No previous scan results!")
       ELSE /\ filter_addresses(value, "NoArg")
            /\ printed' = IF raised' # "none" THEN "Error" ELSE "Remaining addresses:"

(* Choice 7, lines 529-567: the address is resolved, the current value read *)
(* and printed, the new value written and, after a successful write, read   *)
(* back.                                                                    *)
cli_modify(addr_input, value) ==
    /\ Running
    /\ freeze = Idle
    /\ IF ~HandleLive(process_handle) THEN Rejected("Error: No process attached!")
       ELSE LET r == ResolveAddress(addr_input) IN
       IF r.how = "Invalid index!" THEN Rejected("Invalid index!")
       ELSE IF r.how = "ValueError" THEN Caught("ValueError")
       ELSE IF value_type \notin SupportedKinds THEN Caught("UnboundLocalError")
       ELSE /\ call' = Modified(r.address, value, value_type)
            /\ reads' = {<<r.address, Width(value_type)>>}
            /\ IF PackError(value, value_type) # "none"
               THEN /\ raised' = PackError(value, value_type)
                    /\ result' = Raised
                    /\ printed' = "Error"
                    /\ UNCHANGED mem
               ELSE /\ raised' = "none"
                    /\ result' = [type |-> "bool",
                                  val |-> write_ok(r.address, Pack(value, value_type))]
                    /\ mem' = write_mem(r.address, Pack(value, value_type))
                    /\ printed' = IF write_ok(r.address, Pack(value, value_type))
                                  THEN "Successfully modified!"
                                  ELSE "Failed to modify address!"
            /\ UNCHANGED <<open_handles, process_handle, pid, process_name,
                           found_addresses, found_in, value_type, faulty, freeze>>

(* Choice 8, lines 569-594.                                                 *)
cli_read(addr_input) ==
    /\ Running
    /\ freeze = Idle
    /\ IF ~HandleLive(process_handle) THEN Rejected("Error: No process attached!")
       ELSE LET r == ResolveAddress(addr_input) IN
       IF r.how = "Invalid index!" THEN Rejected("Invalid index!")
       ELSE IF r.how = "ValueError" THEN Caught("ValueError")
       ELSE /\ read_value(r.address, "NoArg")
            /\ printed' = IF raised' # "none" THEN "Error"
                          ELSE IF result'.type = "value" THEN "Value at"
                          ELSE "Failed to read address!"

(* Choice 9, lines 596-625, up to the call of freeze_value.                 *)
cli_freeze(addr_input, value, duration) ==
    /\ Running
    /\ freeze = Idle
    /\ IF ~HandleLive(process_handle) THEN Rejected("Error: No process attached!")
       ELSE LET r == ResolveAddress(addr_input) IN
       IF r.how = "Invalid index!" THEN Rejected("Invalid index!")
       ELSE IF r.how = "ValueError" THEN Caught("ValueError")
       ELSE /\ freeze_start(r.address, value, "NoArg", duration)
            /\ printed' = "Press Ctrl+C to stop"

(* Choice 9 while freeze_value runs: an exception of the loop body reaches  *)
(* `except Exception` at line 624.                                          *)
cli_freeze_tick ==
    /\ freeze_tick
    /\ printed' = IF freeze'.active THEN printed ELSE "Error"

cli_freeze_complete ==
    /\ freeze_complete
    /\ printed' = "Freeze completed!"

cli_freeze_interrupt ==
    /\ freeze_interrupt
    /\ printed' = "Freeze stopped by user"

(* What the user types.                                                     *)
CliPids == Pids \cup {3000}
CliScanInputs == {<<PyInt(100), "int32">>, <<TwoTo31, "int32">>}
CliFilterValues == {PyInt(200)}
CliModifyValues == {PyInt(200)}
AddrInputs == {<<"0">>, <<"6">>, <<"1", "0">>, <<"0", "x", "6">>, <<"z">>}

(* The command loop with the target running beside it.                      *)
NextCli ==
    \/ \E p \in CliPids : cli_attach(p)
    \/ cli_detach
    \/ cli_quit
    \/ \E in \in CliScanInputs : cli_scan(in[1], in[2])
    \/ \E v \in CliFilterValues : cli_filter(v)
    \/ \E t \in AddrInputs, v \in CliModifyValues : cli_modify(t, v)
    \/ \E t \in AddrInputs : cli_read(t)
    \/ \E t \in AddrInputs, v \in FreezeValues, d \in 0..MaxDuration : cli_freeze(t, v, d)
    \/ cli_freeze_tick
    \/ cli_freeze_complete
    \/ cli_freeze_interrupt
    \/ \E t \in MutableVariables, v \in TargetValues : Running /\ Direct(target_write(t, v))
    \/ \E i \in DOMAIN Regions : Running /\ Direct(region_fault(i))

SpecCli == Init /\ [][NextCli]_vars

-----------------------------------------------------------------------------
(* freeze_value beside a running target.  The loop runs in the caller's     *)
(* thread: each iteration returns (one system call, one sleep) and the      *)
(* clock advances, so an iteration that is due is taken and the end of the  *)
(* loop is reached; nothing makes the user press Ctrl+C.                    *)
NextFreeze ==
    \/ \E p \in Pids : Direct(open_process(p))
    \/ Direct(close_process)
    \/ \E in \in EngineScanInputs : Direct(scan_memory(in[1], in[2]))
    \/ \E a \in Addresses, v \in FreezeValues, d \in 0..MaxDuration :
            Direct(freeze_start(a, v, "NoArg", d))
    \/ Direct(freeze_tick)
    \/ Direct(freeze_complete)
    \/ Direct(freeze_interrupt)
    \/ \E t \in MutableVariables, v \in TargetValues : Direct(target_write(t, v))
    \/ \E i \in DOMAIN Regions : Direct(region_fault(i))

SpecFreeze ==
    /\ Init
    /\ [][NextFreeze]_vars
    /\ WF_vars(Direct(freeze_tick))
    /\ WF_vars(Direct(freeze_complete))

-----------------------------------------------------------------------------
(* Writes and reads of one address in every integer kind, over values at    *)
(* and around the ends of each kind's range.                                *)
IntegerKinds == {"int32", "int64", "byte"}
CodecValues == {PyInt(255), PyInt(-1), MaxInt32, MinInt32, TwoTo31, MinInt64}
CodecAddresses == {6, 18}

NextCodec ==
    \/ \E p \in Pids : Direct(open_process(p))
    \/ Direct(close_process)
    \/ \E a \in CodecAddresses, v \in CodecValues, k \in IntegerKinds :
            Direct(modify_value(a, v, k))
    \/ \E a \in CodecAddresses, k \in IntegerKinds : Direct(read_value(a, k))
    \/ \E a \in CodecAddresses \cap MutableVariables, v \in TargetValues :
            Direct(target_write(a, v))

SpecCodec == Init /\ [][NextCodec]_vars

-----------------------------------------------------------------------------
(* scan_memory one loop iteration at a time, beside a running target: the   *)
(* candidates are appended to self.found_addresses as the loop goes.  The   *)
(* editor is single-threaded, so no other call of it runs during a scan.    *)

(* Lines 110-138: up to the first test of the loop condition.               *)
scan_begin(value, kind) ==
    /\ freeze = Idle
    /\ ~Scanning
    /\ Encodable(value, kind)
    /\ found_addresses' = <<>>
    /\ found_in' = 0
    /\ value_type' = kind
    /\ raised' = PackError(value, kind)
    /\ reads' = {}
    /\ IF PackError(value, kind) # "none"
       THEN /\ call' = Call("scan_memory", 0)
            /\ result' = Raised
       ELSE /\ call' = InLoop(0, Pack(value, kind))
            /\ result' = NoResult
    /\ UNCHANGED <<open_handles, process_handle, pid, process_name, mem, faulty, freeze>>

(* Lines 140-175: one iteration that reaches line 175.                      *)
scan_iteration ==
    /\ Scanning
    /\ call.address < MaxUserAddress
    /\ LET mbi == VirtualQueryEx(process_handle, call.address) IN
       /\ mbi.result # 0
       /\ IF IsReadable(mbi)
          THEN LET data == read_memory(mbi.BaseAddress, ChunkSize(mbi)) IN
               /\ found_addresses' =
                     IF Truthy(data)
                     THEN found_addresses
                          \o SearchFrom(data.raw, 0, call.search_bytes, mbi.BaseAddress)
                     ELSE found_addresses
               /\ reads' = reads \cup {<<mbi.BaseAddress, ChunkSize(mbi)>>}
          ELSE UNCHANGED <<found_addresses, reads>>
       /\ found_in' = IF found_addresses' = <<>> THEN 0 ELSE pid
       /\ call' = [call EXCEPT !.address = NextAddress(mbi)]
    /\ UNCHANGED <<open_handles, process_handle, pid, process_name, value_type, mem, faulty,
                   freeze, raised, result>>

(* Lines 140, 149-150 and 177-178: the loop condition fails or the query    *)
(* returns 0, and the candidates are returned.                              *)
scan_return ==
    /\ Scanning
    /\ \/ ~(call.address < MaxUserAddress)
       \/ VirtualQueryEx(process_handle, call.address).result = 0
    /\ call' = Call("scan_memory", 0)
    /\ result' = [type |-> "list", val |-> found_addresses]
    /\ UNCHANGED <<open_handles, process_handle, pid, process_name, found_addresses, found_in,
                   value_type, mem, faulty, freeze, raised, reads>>

NextWalk ==
    \/ \E p \in Pids : ~Scanning /\ Direct(open_process(p))
    \/ ~Scanning /\ Direct(close_process)
    \/ \E in \in ScanInputs : Direct(scan_begin(in[1], in[2]))
    \/ Direct(scan_iteration)
    \/ Direct(scan_return)
    \/ \E t \in MutableVariables, v \in TargetValues : Direct(target_write(t, v))
    \/ \E i \in DOMAIN Regions : Direct(region_fault(i))

(* An iteration is a system call and a bounded read: one that is due is     *)
(* taken.                                                                   *)
SpecWalk ==
    /\ Init
    /\ [][NextWalk]_vars
    /\ WF_vars(Direct(scan_iteration))
    /\ WF_vars(Direct(scan_return))

-----------------------------------------------------------------------------
(* The command loop used on two processes in turn: the target and a second  *)
(* process that can be opened.                                              *)
SwitchPids == {1000, 4000}
SwitchInputs == {<<"0">>, <<"1">>, <<"0", "x", "6">>}

NextSwitch ==
    \/ \E p \in SwitchPids : cli_attach(p)
    \/ cli_detach
    \/ \E in \in CliScanInputs : cli_scan(in[1], in[2])
    \/ \E v \in CliFilterValues : cli_filter(v)
    \/ \E t \in SwitchInputs, v \in CliModifyValues : cli_modify(t, v)
    \/ \E t \in SwitchInputs : cli_read(t)
    \/ \E t \in SwitchInputs, v \in FreezeValues, d \in 0..MaxDuration : cli_freeze(t, v, d)
    \/ cli_freeze_tick
    \/ cli_freeze_complete
    \/ cli_freeze_interrupt
    \/ \E t \in MutableVariables, v \in TargetValues : Direct(target_write(t, v))

SpecSwitch == Init /\ [][NextSwitch]_vars

-----------------------------------------------------------------------------
(* Properties.                                                              *)

(* The bytes currently readable at address a are exactly `bytes`.           *)
Holds(a, bytes) ==
    /\ HandleLive(process_handle)
    /\ \A j \in 1..Len(bytes) : CanRead(a + j - 1) /\ mem[a + j - 1] = bytes[j]

Elements(s) == {s[i] : i \in DOMAIN s}

RECURSIVE IsSubsequence(_, _)
IsSubsequence(s, t) ==
    IF s = <<>> THEN TRUE
    ELSE IF t = <<>> THEN FALSE
    ELSE IF Head(s) = Head(t) THEN IsSubsequence(Tail(s), Tail(t))
    ELSE IsSubsequence(s, Tail(t))

(* The candidates of `addresses` whose current bytes are `bytes`.           *)
Matching(addresses, bytes) ==
    LET holds(a) == Holds(a, bytes) IN SelectSeq(addresses, holds)

(* C1: a filter by the stored kind that returns normally leaves exactly the *)
(* previous candidates whose bytes currently read at their address, over    *)
(* the width of the stored kind, equal the little-endian encoding of the    *)
(* filter value in that kind: each of them kept, every other one removed.   *)
C1_FilterExact ==
    [][\A v \in FilterValues :
          (filter_addresses(v, "NoArg") /\ found_addresses # <<>> /\ raised' = "none")
          => found_addresses' = Matching(found_addresses, Pack(v, value_type))]_vars

(* C1 happens: a scan for 100 found three addresses, the target overwrote   *)
(* one of them with 200, and a filter kept exactly that one.                *)
C1_Witness ==
    /\ call = Call("filter_addresses", 2)
    /\ raised = "none"
    /\ value_type = "int32"
    /\ found_addresses = <<6>>
    /\ Holds(6, Pack(PyInt(200), "int32"))
    /\ Holds(2, Pack(PyInt(100), "int32"))

(* C2: whatever the candidates, the filter value, the kind argument and the *)
(* memory, the candidates after a filter are a sub-sequence of those before *)
(* it: none added, order kept, no more of them than before.                 *)
C2_FilterShrinks ==
    [][\A v \in FilterValues, k \in FilterKinds :
          filter_addresses(v, k)
          => /\ IsSubsequence(found_addresses', found_addresses)
             /\ Len(found_addresses') <= Len(found_addresses)]_vars

(* C2 happens: a filter removed some candidates and kept at least two.      *)
C2_Witness ==
    /\ call.op = "filter_addresses"
    /\ call.dropped > 0
    /\ Len(found_addresses) >= 2

(* The addresses base + o of the readable regions whose chunk was read, at  *)
(* which `bytes` occurs at an offset o with 0 <= o <= len(chunk) - width.   *)
Occurrences(bytes) ==
    {a \in 0..(MaxUserAddress - 1) :
        \E i \in DOMAIN Regions :
            /\ IsReadable(Regions[i])
            /\ \A b \in Regions[i].BaseAddress..(Regions[i].BaseAddress + ChunkSize(Regions[i]) - 1) :
                    CanRead(b)
            /\ a >= Regions[i].BaseAddress
            /\ a + Len(bytes) <= Regions[i].BaseAddress + ChunkSize(Regions[i])
            /\ Holds(a, bytes)}

(* C3: a scan that returns normally on a live handle returns exactly the    *)
(* addresses at which the pattern occurs in the bytes read from a scanned   *)
(* region, the occurrence in the last `width` bytes of a chunk included.    *)
C3_ScanExact ==
    [][\A in \in ScanInputs :
          (scan_memory(in[1], in[2]) /\ raised' = "none" /\ HandleLive(process_handle))
          => Elements(found_addresses') = Occurrences(Pack(in[1], in[2]))]_vars

(* C4: the candidate list is strictly ascending by address, so it holds no  *)
(* address twice.                                                           *)
C4_Ascending ==
    \A i, j \in DOMAIN found_addresses : i < j => found_addresses[i] < found_addresses[j]

(* C4 happens: after a scan and a filter the candidates span two regions.   *)
C4_Witness ==
    /\ call.op = "filter_addresses"
    /\ Len(found_addresses) >= 3
    /\ RegionOf(found_addresses[1]) # RegionOf(found_addresses[Len(found_addresses)])

InRegion(a, i) == a >= Regions[i].BaseAddress /\ a < RegionEnd(Regions[i])

(* C5: after a scan, of a readable region larger than the chunk cap only    *)
(* the first ChunkCap bytes were read, in one read at its base; every       *)
(* candidate in the region lies below base + ChunkCap, so an occurrence     *)
(* beyond the cap is not recorded; and no read starts at base + ChunkCap:   *)
(* the walk went on from the end of the region.                             *)
C5_OversizedRegion ==
    call.op = "scan_memory" =>
        \A i \in DOMAIN Regions :
            Regions[i].RegionSize > ChunkCap =>
                /\ \A k \in DOMAIN found_addresses :
                        InRegion(found_addresses[k], i)
                        => found_addresses[k] < Regions[i].BaseAddress + ChunkCap
                /\ \A r \in reads :
                        InRegion(r[1], i) => r = <<Regions[i].BaseAddress, ChunkCap>>

(* C5 happens: the pattern found at the base of the oversized region also   *)
(* stands beyond the cap of that region, and was not recorded there.        *)
C5_Witness ==
    /\ call.op = "scan_memory"
    /\ value_type = "int32"
    /\ <<18, ChunkCap>> \in reads
    /\ 18 \in Elements(found_addresses)
    /\ Holds(18, Pack(PyInt(100), "int32"))
    /\ Holds(18 + ChunkCap, Pack(PyInt(100), "int32"))
    /\ (18 + ChunkCap) \notin Elements(found_addresses)

(* The bytes of the chunk of region i, as the scan reads them.              *)
ChunkBytes(i) ==
    [j \in 1..ChunkSize(Regions[i]) |-> mem[Regions[i].BaseAddress + j - 1]]

(* C6: when the read of a readable region fails during a scan on a live     *)
(* handle, the scan returns normally with its list, holds no candidate in   *)
(* that region, and in every later readable region whose read succeeds it   *)
(* has read the region and recorded what the search of that region's chunk  *)
(* records.                                                                 *)
C6_FailedRegionSkipped ==
    [][\A in \in ScanInputs :
          (scan_memory(in[1], in[2]) /\ PackError(in[1], in[2]) = "none"
              /\ HandleLive(process_handle))
          => /\ raised' = "none"
             /\ result'.type = "list"
             /\ result'.val = found_addresses'
             /\ \A r \in faulty :
                   /\ \A k \in DOMAIN found_addresses' : ~InRegion(found_addresses'[k], r)
                   /\ \A q \in DOMAIN Regions :
                         (q > r /\ q \notin faulty /\ Regions[q].State = MEM_COMMIT
                            /\ Regions[q].Protect \in
                                  {PAGE_READONLY, PAGE_READWRITE, PAGE_WRITECOPY,
                                   PAGE_EXECUTE_READ, PAGE_EXECUTE_READWRITE})
                         => /\ <<Regions[q].BaseAddress, ChunkSize(Regions[q])>> \in reads'
                            /\ LET inq(a) == InRegion(a, q)
                               IN  SelectSeq(found_addresses', inq)
                                     = SearchFrom(ChunkBytes(q), 0, Pack(in[1], in[2]),
                                                  Regions[q].BaseAddress)]_vars

(* C6 happens: the read of region 2 failed and the scan still recorded      *)
(* candidates in region 4.                                                  *)
C6_Witness ==
    /\ call.op = "scan_memory"
    /\ raised = "none"
    /\ faulty = {2}
    /\ <<2, 12>> \in reads
    /\ found_addresses # <<>>
    /\ \A k \in DOMAIN found_addresses : InRegion(found_addresses[k], 4)

(* C7: after a scan, every read it issued starts at the base of a region    *)
(* that is committed and whose protection is one of the five readable       *)
(* ones, and every candidate lies in such a region.                         *)
C7_OnlyReadableRegions ==
    call.op = "scan_memory" =>
        LET readable(i) ==
                /\ Regions[i].State = MEM_COMMIT
                /\ Regions[i].Protect \in {PAGE_READONLY, PAGE_READWRITE, PAGE_WRITECOPY,
                                           PAGE_EXECUTE_READ, PAGE_EXECUTE_READWRITE}
        IN  /\ \A r \in reads :
                 \E i \in DOMAIN Regions : r[1] = Regions[i].BaseAddress /\ readable(i)
            /\ \A k \in DOMAIN found_addresses :
                 \E i \in DOMAIN Regions : InRegion(found_addresses[k], i) /\ readable(i)

(* C7 happens: a scan read both readable regions and recorded candidates,   *)
(* while the committed no-access region holds the same pattern unrecorded.  *)
C7_Witness ==
    /\ call.op = "scan_memory"
    /\ value_type = "int32"
    /\ reads = {<<2, 12>>, <<18, ChunkCap>>}
    /\ 2 \in Elements(found_addresses)
    /\ mem[14] = mem[2] /\ mem[15] = mem[3] /\ mem[16] = mem[4] /\ mem[17] = mem[5]
    /\ 14 \notin Elements(found_addresses)

(* The read of `size` bytes at address a fails.                             *)
ReadFails(a, size) ==
    ~HandleLive(process_handle) \/ \E j \in 1..size : ~CanRead(a + j - 1)

(* C8: a filter over a non-empty candidate list whose value converts raises *)
(* nothing whatever reads fail: it returns the new candidate list, in which *)
(* no candidate whose re-read failed remains and every candidate whose      *)
(* re-read matched does.                                                    *)
C8_FailedRereadDropped ==
    [][\A v \in FilterValues, k \in {"NoArg", "int64"} :
          (filter_addresses(v, k) /\ found_addresses # <<>>
              /\ PackError(v, EffectiveKind(k)) = "none")
          => /\ raised' = "none"
             /\ result'.type = "list"
             /\ result'.val = found_addresses'
             /\ \A a \in Elements(found_addresses) :
                   /\ ReadFails(a, Width(EffectiveKind(k)))
                        => a \notin Elements(found_addresses')
                   /\ Holds(a, Pack(v, EffectiveKind(k)))
                        => a \in Elements(found_addresses')]_vars

(* C8 happens: a filter re-read a candidate in a failing region, dropped    *)
(* it, raised nothing and kept another candidate.                           *)
C8_Witness ==
    /\ call.op = "filter_addresses"
    /\ raised = "none"
    /\ result.type = "list"
    /\ found_addresses # <<>>
    /\ \E r \in reads : ReadFails(r[1], r[2]) /\ r[1] \notin Elements(found_addresses)

(* C9: filter, modify, read and freeze leave the stored kind as it is, and *)
(* every filter, with or without a kind argument, compares the candidates   *)
(* in the stored kind.                                                      *)
C9_FilterUsesStoredKind ==
    [][/\ call'.op \in {"filter_addresses", "modify_value", "read_value", "freeze_value"}
            => value_type' = value_type
       /\ \A v \in EngineFilterValues, k \in FilterKinds :
            (filter_addresses(v, k) /\ found_addresses # <<>> /\ raised' = "none")
            => found_addresses' = Matching(found_addresses, Pack(v, value_type))]_vars

(* C9's failing case happens: after an int32 scan, a filter given the kind *)
(* int64 dropped all three candidates, one of which holds the filter value  *)
(* as int32; the stored kind is still int32.                                *)
C9_Witness ==
    /\ call = Call("filter_addresses", 3)
    /\ raised = "none"
    /\ value_type = "int32"
    /\ found_addresses = <<>>
    /\ Holds(6, Pack(PyInt(200), "int32"))

(* C10: the candidate list changes only in a scan or a filter step; attach, *)
(* detach, read, modify and freeze leave it as it is; after a scan every    *)
(* candidate holds the scanned pattern, whatever the list was before, and   *)
(* a scan that raises leaves the list empty.                                *)
C10_CandidatesFrame ==
    [][/\ found_addresses' # found_addresses
            => call'.op \in {"scan_memory", "filter_addresses"}
       /\ call'.op \in {"open_process", "close_process", "read_value", "modify_value",
                        "freeze_value"}
            => found_addresses' = found_addresses
       /\ \A in \in EngineScanInputs :
            scan_memory(in[1], in[2])
            => IF raised' = "none"
               THEN \A a \in Elements(found_addresses') : Holds(a, Pack(in[1], in[2]))
               ELSE found_addresses' = <<>>]_vars

(* C10 happens: a modify wrote to the target with three candidates listed.  *)
C10_Witness ==
    /\ call.op = "modify_value"
    /\ result.type = "bool"
    /\ result.val
    /\ Len(found_addresses) = 3

(* An outcome that tells the caller the operation failed: an exception, a   *)
(* None, a false.                                                           *)
ReportsFailure(r) ==
    \/ r.type \in {"raised", "None"}
    \/ r.type = "bool" /\ ~r.val

(* C11: a scan called while the session holds no live handle ends in a      *)
(* failure reported to its caller, never in a scan result.                  *)
C11_DeadScanAborts ==
    (call.op = "scan_memory" /\ ~HandleLive(process_handle)) => ReportsFailure(result)

(* C12: while the session holds no live handle, read_value, modify_value    *)
(* and filter_addresses each report a failure to the caller, leave the      *)
(* target's memory as it is and leave the candidate list as it is.          *)
C12_ClosedSessionFails ==
    [][(~HandleLive(process_handle)
        /\ call'.op \in {"read_value", "modify_value", "filter_addresses"})
       => /\ ReportsFailure(result')
          /\ mem' = mem
          /\ found_addresses' = found_addresses]_vars

(* The session and what it acts on: the editor's fields, the handles it     *)
(* holds open, the target's memory.                                         *)
session == <<process_handle, pid, process_name, found_addresses, value_type,
             open_handles, mem>>

(* C13: close_process raises nothing, closes at most one handle and leaves  *)
(* no live handle in the session; called on a session without a live       *)
(* handle (a second time in a row, or never attached) it changes nothing.   *)
C13_DetachIdempotent ==
    [][call'.op = "close_process"
       => /\ raised' = "none"
          /\ open_handles' >= open_handles - 1
          /\ ~HandleLive(process_handle')
          /\ (call.op = "close_process" \/ ~HandleLive(process_handle))
             => session' = session]_vars

(* C13 happens: close_process has run on a session that was never attached. *)
C13_Witness ==
    /\ call.op = "close_process"
    /\ pid = 0
    /\ process_handle = "None"
    /\ open_handles = 0

(* C14: at most one handle to a target is open at any time, and none is     *)
(* open once the command loop has quit.                                     *)
C14_HandlesReleased ==
    /\ open_handles <= 1
    /\ ~Running => open_handles = 0

(* psutil.Process(pid) found the process (line 54).                         *)
ProcessExists(p) == ProcessName(p) # "Unknown"

(* C15: an attach that fails reports an error, leaves no live handle in the *)
(* session, and the error for a pid without a process differs from the      *)
(* error for a process that may not be opened.                              *)
C15_AttachFailureTyped ==
    (call.op = "open_process" /\ ~HandleLive(OpenProcess(pid)))
    => /\ raised # "none"
       /\ printed = "Error"
       /\ ~HandleLive(process_handle)
       /\ \A q \in CliPids :
            (~HandleLive(OpenProcess(q)) /\ ProcessExists(q) # ProcessExists(pid))
            => OpenError(q) # raised

(* The write of `size` bytes at address a fails.                            *)
WriteFails(a, size) ==
    ~HandleLive(process_handle) \/ \E j \in 1..size : ~CanWrite(a + j - 1)

(* C16: a read_value that raises nothing issues one read and returns None   *)
(* when any of the kind's bytes cannot be read, a value otherwise; a        *)
(* modify_value that raises nothing returns false, and leaves the memory as *)
(* it is, when any of the encoded bytes cannot be written, true otherwise.  *)
C16_DirectFailureSurfaced ==
    [][/\ (call'.op = "read_value" /\ raised' = "none")
          => /\ Cardinality(reads') = 1
             /\ \A rd \in reads' :
                  result'.type = IF ReadFails(rd[1], rd[2]) THEN "None" ELSE "value"
       /\ \A a \in Addresses, v \in ModifyValues :
            (modify_value(a, v, "NoArg") /\ raised' = "none")
            => /\ result'.type = "bool"
               /\ result'.val = ~WriteFails(a, Width(value_type))
               /\ WriteFails(a, Width(value_type)) => mem' = mem]_vars

(* C16 happens: on a live session, a four-byte read of which only the first *)
(* two bytes are readable has returned None.                                *)
C16_Witness ==
    /\ call.op = "read_value"
    /\ HandleLive(process_handle)
    /\ reads = {<<12, 4>>}
    /\ CanRead(12) /\ CanRead(13) /\ ~CanRead(14)
    /\ result.type = "None"

(* The values of each integer kind, and the width the kind is to have.      *)
Representable(v, k) ==
    CASE k = "int32" -> InInt32(v)
      [] k = "int64" -> InInt64(v)
      [] k = "byte" -> v.top = 0 /\ v.mid = 0 /\ v.lo <= 255
FixedWidth(k) == CASE k = "int32" -> 4 [] k = "int64" -> 8 [] k = "byte" -> 1

(* C17: for an integer kind k and a value v of that kind, a modify_value    *)
(* that succeeds puts exactly FixedWidth(k) bytes at the address, the least *)
(* significant first, and changes no other byte; a read_value of the same   *)
(* address and kind that follows it directly returns v.                     *)
C17_RoundTrip ==
    [][\A a \in CodecAddresses, k \in IntegerKinds :
         /\ \A v \in CodecValues :
              (Representable(v, k) /\ modify_value(a, v, k) /\ ~ReportsFailure(result'))
              => \A b \in DOMAIN mem :
                   mem'[b] = IF b >= a /\ b < a + FixedWidth(k)
                             THEN IntByte(v, b - a) ELSE mem[b]
         /\ (/\ call.op = "modify_value"
             /\ ~ReportsFailure(result)
             /\ call.address = a
             /\ call.kind = k
             /\ Representable(call.value, k)
             /\ read_value(a, k))
            => result' = [type |-> "value", val |-> call.value]]_vars

(* C17 happens: a read has returned the least int64, which only a write of  *)
(* it in the kind int64 puts into the target.                               *)
C17_Witness ==
    /\ call.op = "read_value"
    /\ result = [type |-> "value", val |-> MinInt64]

(* C18: on an attached session, a read, modify or freeze command given a    *)
(* decimal index acts on the candidate at that index when the index is      *)
(* below the number of candidates; otherwise, with no candidates too, it    *)
(* answers "Invalid index!" and neither reads nor writes the target.        *)
C18_IndexChecked ==
    [][\A t \in AddrInputs :
         (isdigit(t) /\ HandleLive(process_handle))
         => IF int(t) < Len(found_addresses)
            THEN /\ cli_read(t) => reads' = {<<found_addresses[int(t) + 1], Width(value_type)>>}
                 /\ \A v \in CliModifyValues :
                      cli_modify(t, v) => call'.address = found_addresses[int(t) + 1]
                 /\ \A v \in FreezeValues, d \in 0..MaxDuration :
                      cli_freeze(t, v, d) => freeze'.address = found_addresses[int(t) + 1]
            ELSE ((\/ cli_read(t)
                   \/ \E v \in CliModifyValues : cli_modify(t, v)
                   \/ \E v \in FreezeValues, d \in 0..MaxDuration : cli_freeze(t, v, d))
                  => /\ printed' = "Invalid index!"
                     /\ reads' = {}
                     /\ mem' = mem
                     /\ freeze' = freeze)]_vars

(* C19: a freeze that is running stops; it does not run past its duration;  *)
(* it ends as Completed only when the duration has elapsed and as Cancelled *)
(* on an interrupt; once it has stopped, no step of it changes the target's *)
(* memory.                                                                  *)
C19_FreezeTerminates ==
    /\ [][/\ (freeze.active /\ freeze'.active) => freeze'.elapsed <= freeze'.deadline
          /\ (freeze.active /\ ~freeze'.active /\ result'.type = "outcome")
             => IF freeze.elapsed < freeze.deadline
                THEN result'.val = "Cancelled"
                ELSE result'.val \in {"Completed", "Cancelled"}
          /\ (~freeze.active /\ mem' # mem) => call'.op # "freeze_value"]_vars
    /\ (freeze.active ~> ~freeze.active)

(* C19 happens: a freeze has written its value and has ended as Completed.  *)
C19_Witness ==
    /\ call.op = "freeze_value"
    /\ ~freeze.active
    /\ result = [type |-> "outcome", val |-> "Completed"]
    /\ Holds(6, Pack(PyInt(200), "int32"))

(* The frozen address holds the frozen value.                               *)
Frozen == Holds(freeze.address, Pack(freeze.value, freeze.kind))

(* The write of the frozen value would succeed.                             *)
FreezeWritable ==
    /\ PackError(freeze.value, freeze.kind) = "none"
    /\ ~WriteFails(freeze.address, Width(freeze.kind))

(* C20: every iteration of a running freeze whose write succeeds leaves the *)
(* frozen value at the frozen address, and changes no other byte; and while *)
(* the freeze runs and its writes succeed, an address that holds another    *)
(* value holds the frozen value again at the next iteration, unless the     *)
(* freeze has ended first.                                                  *)
C20_FreezeRestores ==
    /\ [][(freeze.active /\ freeze'.active /\ freeze'.elapsed = freeze.elapsed + 1
           /\ FreezeWritable)
          => /\ Frozen'
             /\ \A b \in DOMAIN mem :
                  (b < freeze.address \/ b >= freeze.address + Width(freeze.kind))
                  => mem'[b] = mem[b]]_vars
    /\ ((freeze.active /\ FreezeWritable /\ ~Frozen)
        ~> (~freeze.active \/ ~FreezeWritable \/ Frozen))

(* C20 happens: a freeze has written its value, the target has since put    *)
(* another value at the frozen address, and an iteration is due.            *)
C20_Witness ==
    /\ freeze.active
    /\ freeze.elapsed >= 1
    /\ freeze.elapsed < freeze.deadline
    /\ FreezeWritable
    /\ ~Frozen

(* C21: while a freeze is running the command loop can take a command: a   *)
(* modify, a read, a detach.                                                *)
C21_LoopResponsive ==
    freeze.active
    => /\ ENABLED (\E t \in AddrInputs, v \in CliModifyValues : cli_modify(t, v))
       /\ ENABLED (\E t \in AddrInputs : cli_read(t))
       /\ ENABLED cli_detach

(* The bytes a freeze writes.                                               *)
FreezeBytes == freeze.address .. freeze.address + Width(freeze.kind) - 1

(* C22: a freeze is bound to the address its input resolved to when it was  *)
(* started; while it runs that address and the candidate set stay as they   *)
(* are, and an iteration changes no byte outside the value at that address. *)
C22_FreezeAddressFixed ==
    [][/\ \A t \in AddrInputs, v \in FreezeValues, d \in 0..MaxDuration :
            cli_freeze(t, v, d) /\ freeze'.active
            => freeze'.address = ResolveAddress(t).address
       /\ freeze.active
          => /\ found_addresses' = found_addresses
             /\ value_type' = value_type
       /\ freeze.active /\ freeze'.active
          => /\ freeze'.address = freeze.address
             /\ freeze'.elapsed # freeze.elapsed
                => \A a \in DOMAIN mem : mem'[a] # mem[a] => a \in FreezeBytes]_vars

(* A freeze started from index 0 has run an iteration and holds its value   *)
(* at the first candidate.                                                  *)
C22_Witness ==
    /\ freeze.active
    /\ freeze.elapsed >= 1
    /\ found_addresses # <<>>
    /\ freeze.address = found_addresses[1]
    /\ freeze.address \notin {int16(t) : t \in {u \in AddrInputs : IsHex(u)}}
    /\ Holds(freeze.address, Pack(freeze.value, freeze.kind))

(* The write of the frozen value would be reported as failed: the value    *)
(* encodes and WriteProcessMemory refuses it.                               *)
FreezeWriteFails ==
    /\ PackError(freeze.value, freeze.kind) = "none"
    /\ WriteFails(freeze.address, Width(freeze.kind))

(* C23: an iteration of a running freeze whose write fails leaves the       *)
(* freeze running: it counts as an iteration, changes no memory and raises  *)
(* nothing; a freeze whose write fails ends only as Completed or Cancelled; *)
(* every iteration attempts the write; and an iteration that is due while   *)
(* the write fails is taken, unless the freeze is cancelled first.          *)
C23_FailedWriteContinues ==
    /\ [][/\ (freeze.active /\ freeze' # freeze /\ FreezeWriteFails)
             => \/ /\ freeze'.active
                   /\ freeze' = [freeze EXCEPT !.elapsed = @ + 1]
                   /\ mem' = mem
                   /\ raised' = raised
                \/ /\ ~freeze'.active
                   /\ result'.type = "outcome"
                   /\ result'.val = "Completed" => ~(freeze.elapsed < freeze.deadline)
          /\ (freeze.active /\ freeze'.active /\ freeze'.elapsed # freeze.elapsed)
             => mem' = write_mem(freeze.address, Pack(freeze.value, freeze.kind))]_vars
    /\ \A n \in 0..(MaxDuration * TicksPerSecond) :
          (freeze.active /\ freeze.elapsed = n /\ n < freeze.deadline /\ FreezeWriteFails)
          ~> (~freeze.active \/ freeze.elapsed > n)

(* C23 happens: a freeze of an address that cannot be written has run an    *)
(* iteration and is still running.                                          *)
C23_Witness ==
    /\ freeze.active
    /\ freeze.elapsed >= 1
    /\ freeze.elapsed < freeze.deadline
    /\ HandleLive(process_handle)
    /\ FreezeWriteFails
    /\ ~Frozen

(* A step of one of the five commands that need a process.                  *)
NeedsProcess ==
    \/ \E in \in CliScanInputs : cli_scan(in[1], in[2])
    \/ \E v \in CliFilterValues : cli_filter(v)
    \/ \E t \in AddrInputs, v \in CliModifyValues : cli_modify(t, v)
    \/ \E t \in AddrInputs : cli_read(t)
    \/ \E t \in AddrInputs, v \in FreezeValues, d \in 0..MaxDuration : cli_freeze(t, v, d)

(* The step has left the editor and the target as they were.                *)
Untouched ==
    UNCHANGED <<process_handle, pid, process_name, found_addresses, found_in, value_type, mem, faulty,
                freeze, open_handles>>

(* C24: in the command loop, without a live handle, a scan, filter, modify, *)
(* read or freeze command prints "No process attached" and changes nothing; *)
(* with a live handle and no candidates, a filter command prints "No        *)
(* previous scan results" and changes nothing.                              *)
C24_RejectedWithoutProcess ==
    [][/\ (~HandleLive(process_handle) /\ NeedsProcess)
          => /\ printed' = "Error: No process attached!"
             /\ reads' = {}
             /\ raised' = "none"
             /\ Untouched
       /\ (HandleLive(process_handle) /\ found_addresses = <<>>
           /\ \E v \in CliFilterValues : cli_filter(v))
          => /\ printed' = "Error: No previous scan results!"
             /\ reads' = {}
             /\ raised' = "none"
             /\ Untouched]_vars

(* C24 happens: a command has been turned down after a detach or a failed   *)
(* attach that followed a scan with results.                                *)
C24_Witness ==
    /\ printed = "Error: No process attached!"
    /\ call.op = "rejected"
    /\ ~HandleLive(process_handle)
    /\ found_addresses # <<>>

(* A call of scan_memory, filter_addresses, modify_value or read_value      *)
(* whose kind, passed or stored, is none of the supported ones.             *)
UnsupportedKindCall ==
    \/ \E in \in EngineScanInputs :
            in[2] \notin SupportedKinds /\ scan_memory(in[1], in[2])
    \/ \E v \in EngineFilterValues, k \in FilterKinds :
            EffectiveKind(k) \notin SupportedKinds /\ filter_addresses(v, k)
    \/ \E a \in Addresses, v \in ModifyValues :
            value_type \notin SupportedKinds /\ modify_value(a, v, "NoArg")
    \/ \E a \in Addresses :
            value_type \notin SupportedKinds /\ read_value(a, "NoArg")

(* C25: a call of an operation that takes a kind, made with an unsupported  *)
(* kind, raises to its caller, whatever the candidate set is, and has read  *)
(* and written nothing in the target.                                       *)
C25_UnsupportedKindFails ==
    [][UnsupportedKindCall
       => /\ raised' # "none"
          /\ result' = Raised
          /\ reads' = {}
          /\ mem' = mem]_vars

(* C27: a scan that raises while it encodes the value it searches for       *)
(* leaves the candidate set and the active kind as they were.               *)
C27_FailedScanKeepsState ==
    [][\A in \in ScanInputs :
          (scan_memory(in[1], in[2]) /\ raised' # "none")
          => /\ found_addresses' = found_addresses
             /\ value_type' = value_type]_vars

(* C28: an attach that fails while a process is attached leaves the handle, *)
(* the pid and the name of that process in place.                           *)
C28_FailedAttachKeepsSession ==
    [][\A p \in CliPids :
          (HandleLive(process_handle) /\ cli_attach(p) /\ raised' # "none")
          => /\ process_handle' = process_handle
             /\ pid' = pid
             /\ process_name' = process_name]_vars

(* C30: the state a filter leaves is one in which the same filter, run      *)
(* again before the target's memory changes, returns the same candidates    *)
(* and leaves them as they are; and a filter of an empty candidate set      *)
(* returns the empty list, raises nothing and reads nothing.                *)
C30_FilterIdempotent ==
    [][\A v \in FilterValues, k \in FilterKinds :
          filter_addresses(v, k)
          => /\ (ENABLED (/\ filter_addresses(v, k)
                          /\ found_addresses' = found_addresses
                          /\ raised' = raised
                          /\ raised = "none" => /\ result' = result
                                                /\ call' = Call("filter_addresses", 0)))'
             /\ found_addresses = <<>>
                => /\ found_addresses' = <<>>
                   /\ result' = [type |-> "list", val |-> <<>>]
                   /\ raised' = "none"
                   /\ reads' = {}]_vars

(* C30 happens: a filter on a live handle has kept every candidate it was   *)
(* given, as the second of two equal filters does.                          *)
C30_Witness ==
    /\ call = Call("filter_addresses", 0)
    /\ raised = "none"
    /\ HandleLive(process_handle)
    /\ found_addresses # <<>>
    /\ value_type = "int32"
    /\ \A i \in DOMAIN found_addresses :
          Holds(found_addresses[i], Pack(PyInt(200), "int32"))

(* C26: a scan in progress ends; each iteration of its loop moves the       *)
(* queried address strictly upward; an iteration is taken only below the    *)
(* ceiling and after a query that succeeded; and the loop is left only when *)
(* the address has reached the ceiling or the query has failed.             *)
C26_ScanTerminates ==
    /\ [][/\ (Scanning /\ Scanning' /\ <<call, found_addresses, reads>>' # <<call, found_addresses, reads>>)
             => /\ call'.address > call.address
                /\ call.address < MaxUserAddress
                /\ VirtualQueryEx(process_handle, call.address).result # 0
          /\ (Scanning /\ ~Scanning')
             => \/ ~(call.address < MaxUserAddress)
                \/ VirtualQueryEx(process_handle, call.address).result = 0]_vars
    /\ (Scanning ~> ~Scanning)

(* C26 happens: a scan that found candidates on its way has reached the     *)
(* ceiling and is about to return.                                          *)
C26_Witness ==
    /\ Scanning
    /\ ~(call.address < MaxUserAddress)
    /\ HandleLive(process_handle)
    /\ found_addresses # <<>>
    /\ Cardinality(reads) >= 2

(* A step of read, modify or freeze in the command loop whose address       *)
(* input was resolved as an index into the candidates.                      *)
UsedByIndex ==
    \E t \in SwitchInputs :
        /\ HandleLive(process_handle)
        /\ ResolveAddress(t).how = "index"
        /\ \/ \E v \in CliModifyValues : cli_modify(t, v)
           \/ cli_read(t)
           \/ \E v \in FreezeValues, d \in 0..MaxDuration : cli_freeze(t, v, d)

(* C29: a candidate that read, modify or freeze picks by index was found by *)
(* a scan of the process the session is attached to.                        *)
C29_CandidatesOfAttachedProcess ==
    [][UsedByIndex => found_in = pid]_vars

=============================================================================
